---- MODULE Spec2Model ----
(***************************************************************************)
(* A model of cirq/pasqal/pasqal_device.py (PasqalDevice) and of           *)
(* cirq/ops/gate_operation.py (GateOperation).                             *)
(*                                                                         *)
(* Spec   : a PasqalDevice after construction, a caller that calls its     *)
(*          methods one at a time and that still holds the collection of   *)
(*          qubits it passed to the constructor.                           *)
(* OpSpec : GateOperation objects, the operations derived from them, and   *)
(*          their comparison and hashing.                                  *)
(***************************************************************************)
EXTENDS Integers, Sequences, FiniteSets, TLC

VARIABLES
    control_radius,   \* self.control_radius, as a number of halves (3 is 1.5)
    qubits,           \* self.qubits: the caller's collection itself, not a copy
    qubitsKind,       \* "list" or "iterator": what the caller passed as qubits
    call,             \* the method the caller is in ("idle" between calls)
    operation,        \* the argument of that call
    raised,           \* the exception that call raised (kind "none": it returned)
    returned,         \* the value that call returned
    decomposeCalls,   \* how often that call invoked cirq.protocols.decompose
    answer,           \* what cirq.protocols.decompose answered in that call
    opA,              \* OpSpec: a GateOperation (or subclass) object
    opB               \* OpSpec: a second operation object, built from opA

vars == <<control_radius, qubits, qubitsKind, call, operation,
          raised, returned, decomposeCalls, answer, opA, opB>>

deviceVars == <<control_radius, qubits, qubitsKind>>
callVars == <<call, operation, raised, returned, decomposeCalls, answer>>
opVars == <<opA, opB>>

(***************************************************************************)
(* Bounds of the model.                                                    *)
(***************************************************************************)
MaxRow == 1            \* grid qubits (r,0,0) for r in 0..MaxRow, and two more
MaxRadiusHalves == 3   \* control_radius ranges over 0, 0.5, ..., MaxRadiusHalves/2
MaxDeviceQubits == 3   \* length of the collection given to the constructor
MaxDecomposition == 2  \* length of what cirq.protocols.decompose returns
MaxArity == 3          \* OpSpec: number of qubits of an operation
HashModulus == 251     \* OpSpec: hashes are computed modulo this

(***************************************************************************)
(* PasqalDevice.__init__: the four caps are fixed attributes.              *)
(***************************************************************************)
max_parallel_z == 2
max_parallel_xy == 2
max_parallel_c == 10
max_parallel_t == 1

(***************************************************************************)
(* Qubits. A ThreeDGridQubit has integer row, col, lay; any other Qid      *)
(* (here a LineQubit at x = row) fails isinstance(q, ThreeDGridQubit).     *)
(***************************************************************************)
ThreeDGridQubit(r, c, l) == [type |-> "ThreeDGridQubit", row |-> r, col |-> c, lay |-> l]
LineQubit(x) == [type |-> "LineQubit", row |-> x, col |-> 0, lay |-> 0]

GridQubits ==
    {ThreeDGridQubit(r, 0, 0) : r \in 0..MaxRow}
        \cup {ThreeDGridQubit(0, 1, 0), ThreeDGridQubit(0, 0, 1)}

Qids == GridQubits \cup {LineQubit(0)}

IsThreeDGridQubit(q) == q.type = "ThreeDGridQubit"

\* The order of ThreeDGridQubit: by (row, col, lay).
QubitLess(p, q) ==
    \/ p.row < q.row
    \/ p.row = q.row /\ p.col < q.col
    \/ p.row = q.row /\ p.col = q.col /\ p.lay < q.lay

SeqsUpTo(S, lo, hi) == UNION {[1..n -> S] : n \in lo..hi}

Range(s) == {s[i] : i \in 1..Len(s)}

(***************************************************************************)
(* Operations as the device sees them: their class, the class of their     *)
(* gate, their qubits.                                                     *)
(***************************************************************************)
GateKinds == {"XPowGate", "YPowGate", "ZPowGate", "PhasedXPowGate",
              "MeasurementGate", "IdentityGate", "OtherGate"}

\* 1..3 qubits (up to one more than max_parallel_z and max_parallel_xy), and
\* operations at and just above max_parallel_c + max_parallel_t qubits.
ShortLengths == 1 .. (max_parallel_z + 1)
LongLengths == (max_parallel_c + max_parallel_t) .. (max_parallel_c + max_parallel_t + 1)

\* p repeated n-1 times, then q
Repeated(p, q, n) == [i \in 1..n |-> IF i = n THEN q ELSE p]

OperandSeqs ==
    UNION {[1..n -> Qids] : n \in ShortLengths}
        \cup {Repeated(p, q, n) : p \in Qids, q \in Qids, n \in LongLengths}

\* A GateOperation with any gate, or an Operation of another class.
OperationInputs ==
    {[cls |-> "GateOperation", gate |-> g, qubits |-> qs] :
        g \in GateKinds, qs \in OperandSeqs}
    \cup {[cls |-> "Operation", gate |-> "XPowGate", qubits |-> qs] : qs \in OperandSeqs}

NoOperation == [cls |-> "none", gate |-> "none", qubits |-> <<>>]

(***************************************************************************)
(* Exceptions and return values.                                           *)
(***************************************************************************)
Raise(kind, gate, qs) == [kind |-> kind, gate |-> gate, qubits |-> qs]
NoError == Raise("none", "none", <<>>)
None == "None"

(***************************************************************************)
(* PasqalDevice.qubit_set, qubit_list                                      *)
(***************************************************************************)
qubit_set(qs) == Range(qs)

qubit_list_len(qs) == Cardinality(qubit_set(qs))

(***************************************************************************)
(* PasqalDevice.is_pasqal_device_op                                        *)
(***************************************************************************)
is_pasqal_device_op_NoMultiQubit(op) ==
    IF op.cls # "GateOperation" THEN FALSE
    ELSE op.gate \in {"YPowGate", "ZPowGate", "XPowGate", "PhasedXPowGate",
                      "MeasurementGate", "IdentityGate"}

is_pasqal_device_op(op) ==
    IF op.cls # "GateOperation" THEN FALSE
    ELSE LET keep0 == FALSE
             keep1 == keep0 \/ (Len(op.qubits) > 1)
             keep2 == keep1 \/ (op.gate = "YPowGate")
             keep3 == keep2 \/ (op.gate = "ZPowGate")
             keep4 == keep3 \/ (op.gate = "XPowGate")
             keep5 == keep4 \/ (op.gate = "PhasedXPowGate")
             keep6 == keep5 \/ (op.gate = "MeasurementGate")
             keep7 == keep6 \/ (op.gate = "IdentityGate")
         IN  keep7

(***************************************************************************)
(* PasqalDevice.distance: sqrt(d2), represented by d2, the sum of the      *)
(* squared coordinate differences.                                         *)
(***************************************************************************)
distance(p, q) ==
    IF ~IsThreeDGridQubit(q) THEN [raised |-> Raise("WrongLocationKind", "none", <<q>>), d2 |-> 0]
    ELSE IF ~IsThreeDGridQubit(p) THEN [raised |-> Raise("WrongLocationKind", "none", <<p>>), d2 |-> 0]
    ELSE [raised |-> NoError,
          d2 |-> (p.row - q.row) * (p.row - q.row) + (p.col - q.col) * (p.col - q.col)
                    + (p.lay - q.lay) * (p.lay - q.lay)]

\* sqrt(d2) > radiusHalves / 2, both sides non-negative
ExceedsRadius(d2, radiusHalves) == 4 * d2 > radiusHalves * radiusHalves

(***************************************************************************)
(* PasqalDevice.validate_operation                                         *)
(***************************************************************************)
\* the pairs (i, j) at which the nested loops over operation.qubits raise
TooFarPairs(radius, op) ==
    {ij \in (1..Len(op.qubits)) \X (1..Len(op.qubits)) :
        ExceedsRadius(distance(op.qubits[ij[1]], op.qubits[ij[2]]).d2, radius)}

\* the first of them in the loops' order
FirstPair(S) ==
    CHOOSE x \in S : \A y \in S : x[1] < y[1] \/ (x[1] = y[1] /\ x[2] <= y[2])

FirstNonGrid(qs) ==
    qs[CHOOSE i \in 1..Len(qs) :
          /\ ~IsThreeDGridQubit(qs[i])
          /\ \A j \in 1..(i - 1) : IsThreeDGridQubit(qs[j])]

validate_parallel_NoBroadcast(qs, op) ==
    IF op.gate = "ZPowGate" /\ Len(op.qubits) > max_parallel_z
    THEN Raise("TooManyParallelZ", op.gate, <<>>)
    ELSE IF /\ op.gate \in {"XPowGate", "YPowGate", "PhasedXPowGate"}
            /\ Len(op.qubits) > max_parallel_xy
    THEN Raise("TooManyParallelXY", op.gate, <<>>)
    ELSE NoError

validate_parallel_ZOffByOne(qs, op) ==
    IF op.gate = "ZPowGate" /\ Len(op.qubits) >= max_parallel_z
    THEN Raise("TooManyParallelZ", op.gate, <<>>)
    ELSE IF /\ op.gate \in {"XPowGate", "YPowGate", "PhasedXPowGate"}
            /\ Len(op.qubits) > max_parallel_xy
            /\ Len(op.qubits) # qubit_list_len(qs)
    THEN Raise("TooManyParallelXY", op.gate, <<>>)
    ELSE NoError

\* lines 117-127: the Z and the X/Y caps
validate_parallel(qs, op) ==
    IF op.gate = "ZPowGate" /\ Len(op.qubits) > max_parallel_z
    THEN Raise("TooManyParallelZ", op.gate, <<>>)
    ELSE IF /\ op.gate \in {"XPowGate", "YPowGate", "PhasedXPowGate"}
            /\ Len(op.qubits) > max_parallel_xy
            /\ Len(op.qubits) # qubit_list_len(qs)
    THEN Raise("TooManyParallelXY", op.gate, <<>>)
    ELSE NoError

\* lines 105-115: the size and the reach of the operation
validate_controlled(radius, qs, op) ==
    IF Len(op.qubits) > max_parallel_c + max_parallel_t
    THEN Raise("TooManyParallelControlled", op.gate, <<>>)
    ELSE IF Len(op.qubits) > 1 /\ TooFarPairs(radius, op) # {}
    THEN LET ij == FirstPair(TooFarPairs(radius, op))
         IN  Raise("OperandsTooFar", op.gate, <<op.qubits[ij[1]], op.qubits[ij[2]]>>)
    ELSE validate_parallel(qs, op)

validate_operation_CapsFirst(radius, qs, op) ==
    IF op.cls # "GateOperation"
    THEN Raise("NotAnOperation", "none", <<>>)
    ELSE IF ~is_pasqal_device_op(op)
    THEN Raise("UnsupportedGate", op.gate, <<>>)
    ELSE IF \E i \in 1..Len(op.qubits) : ~IsThreeDGridQubit(op.qubits[i])
    THEN Raise("WrongLocationKind", op.gate, <<FirstNonGrid(op.qubits)>>)
    ELSE IF op.gate \in {"MeasurementGate", "IdentityGate"}
    THEN NoError
    ELSE IF validate_parallel(qs, op) # NoError
    THEN validate_parallel(qs, op)
    ELSE validate_controlled(radius, qs, op)

validate_operation(radius, qs, op) ==
    IF op.cls # "GateOperation"
    THEN Raise("NotAnOperation", "none", <<>>)
    ELSE IF ~is_pasqal_device_op(op)
    THEN Raise("UnsupportedGate", op.gate, <<>>)
    ELSE IF \E i \in 1..Len(op.qubits) : ~IsThreeDGridQubit(op.qubits[i])
    THEN Raise("WrongLocationKind", op.gate, <<FirstNonGrid(op.qubits)>>)
    ELSE IF op.gate \in {"MeasurementGate", "IdentityGate"}
    THEN NoError
    ELSE validate_controlled(radius, qs, op)

(***************************************************************************)
(* cirq.protocols.decompose(operation, keep=is_pasqal_device_op): an       *)
(* external collaborator. It answers with a list of operations or raises;  *)
(* an operation that already satisfies keep comes back as it is.           *)
(***************************************************************************)
DecomposeFragments(op) ==
    {[cls |-> "GateOperation", gate |-> "XPowGate", qubits |-> op.qubits],
     [cls |-> "GateOperation", gate |-> "AnotherGate", qubits |-> op.qubits],
     [cls |-> "GateOperation", gate |-> "OtherGate", qubits |-> op.qubits \o op.qubits],
     [cls |-> "Operation", gate |-> "XPowGate", qubits |-> op.qubits]}

Answer(ops) == [raises |-> FALSE, value |-> ops]
NoDecompositionRule == [raises |-> TRUE, value |-> <<>>]
NotAsked == [raises |-> FALSE, value |-> <<>>]

\* (an operation that is no GateOperation never reaches the collaborator)
DecomposeAnswers(op) ==
    IF op.cls # "GateOperation"
    THEN {NotAsked}
    ELSE IF is_pasqal_device_op(op)
    THEN {Answer(<<op>>)}
    ELSE {NoDecompositionRule}
            \cup {Answer(ops) : ops \in SeqsUpTo(DecomposeFragments(op), 0, MaxDecomposition)}

(***************************************************************************)
(* PasqalDevice.decompose_operation, given the collaborator's answer.      *)
(* The result: what was raised, what was returned, and whether the         *)
(* collaborator was called.                                                *)
(***************************************************************************)
Outcome(exc, value, n) == [raised |-> exc, returned |-> value, decomposeCalls |-> n]

\* lines 57-62: the check of every element, then the return
decompose_check(op, decomposition, n) ==
    IF \E i \in 1..Len(decomposition) : ~is_pasqal_device_op(decomposition[i])
    THEN Outcome(Raise("UnsupportedGate", op.gate, <<>>), None, n)
    ELSE Outcome(NoError, decomposition, n)

decompose_operation_NoCheck(op, ans) ==
    IF op.cls # "GateOperation"
    THEN Outcome(Raise("NotAnOperation", "none", <<>>), None, 0)
    ELSE IF ~is_pasqal_device_op(op)
    THEN IF ans.raises
         THEN Outcome(Raise("NoDecompositionRule", op.gate, <<>>), None, 1)
         ELSE Outcome(NoError, ans.value, 1)
    ELSE Outcome(NoError, <<op>>, 0)

decompose_operation_AlwaysDecompose(op, ans) ==
    IF op.cls # "GateOperation"
    THEN Outcome(Raise("NotAnOperation", "none", <<>>), None, 0)
    ELSE IF ans.raises
    THEN Outcome(Raise("NoDecompositionRule", op.gate, <<>>), None, 1)
    ELSE decompose_check(op, ans.value, 1)

decompose_operation(op, ans) ==
    IF op.cls # "GateOperation"
    THEN Outcome(Raise("NotAnOperation", "none", <<>>), None, 0)
    ELSE IF ~is_pasqal_device_op(op)
    THEN IF ans.raises
         THEN Outcome(Raise("NoDecompositionRule", op.gate, <<>>), None, 1)
         ELSE decompose_check(op, ans.value, 1)
    ELSE decompose_check(op, <<op>>, 0)

\* opA, opB while no such object exists
NoOp == [cls |-> "none", gate |-> "none", qubits |-> <<>>]

(***************************************************************************)
(* PasqalDevice.__init__. It raises for a qubit that is no ThreeDGridQubit *)
(* and for a negative radius, so a constructed device has neither. Its     *)
(* loop over qubits exhausts an iterator, and self.qubits is then that     *)
(* exhausted iterator.                                                     *)
(***************************************************************************)
IsStrictlySorted(s) == \A i \in 1..(Len(s) - 1) : QubitLess(s[i], s[i + 1])

ConstructorQubits ==
    {s \in SeqsUpTo(GridQubits, 0, MaxDeviceQubits) : IsStrictlySorted(s)}

Idle ==
    /\ call = "idle"
    /\ operation = NoOperation
    /\ raised = NoError
    /\ returned = None
    /\ decomposeCalls = 0
    /\ answer = NotAsked

Init ==
    /\ control_radius \in 0..MaxRadiusHalves
    /\ qubitsKind \in {"list", "iterator"}
    /\ \E given \in ConstructorQubits :
          qubits = IF qubitsKind = "iterator" THEN <<>> ELSE given
    /\ Idle
    /\ opA = NoOp
    /\ opB = NoOp

(***************************************************************************)
(* The caller's calls. Each is one action: from "idle" to the method's     *)
(* result; Return goes back to "idle".                                     *)
(***************************************************************************)
ValidateOperation ==
    /\ call = "idle"
    /\ \E op \in OperationInputs :
          /\ operation' = op
          /\ raised' = validate_operation(control_radius, qubits, op)
    /\ call' = "validate_operation"
    /\ returned' = None
    /\ decomposeCalls' = 0
    /\ answer' = NotAsked
    /\ UNCHANGED <<deviceVars, opVars>>

DecomposeOperation ==
    /\ call = "idle"
    /\ \E op \in OperationInputs :
          \E a \in DecomposeAnswers(op) :
             LET out == decompose_operation(op, a) IN
             /\ operation' = op
             /\ raised' = out.raised
             /\ returned' = out.returned
             /\ decomposeCalls' = out.decomposeCalls
             /\ answer' = IF out.decomposeCalls = 0 THEN NotAsked ELSE a
    /\ call' = "decompose_operation"
    /\ UNCHANGED <<deviceVars, opVars>>

IsPasqalDeviceOp ==
    /\ call = "idle"
    /\ \E op \in OperationInputs :
          /\ operation' = op
          /\ returned' = is_pasqal_device_op(op)
    /\ call' = "is_pasqal_device_op"
    /\ raised' = NoError
    /\ decomposeCalls' = 0
    /\ answer' = NotAsked
    /\ UNCHANGED <<deviceVars, opVars>>

QubitSet ==
    /\ call = "idle"
    /\ call' = "qubit_set"
    /\ returned' = qubit_set(qubits)
    /\ raised' = NoError
    /\ UNCHANGED <<operation, decomposeCalls, answer, deviceVars, opVars>>

\* distance(p, q); the two qubits are recorded as the qubits of `operation`
Distance ==
    /\ call = "idle"
    /\ \E p \in Qids, q \in Qids :
          LET out == distance(p, q) IN
          /\ operation' = [cls |-> "none", gate |-> "none", qubits |-> <<p, q>>]
          /\ raised' = out.raised
          /\ returned' = IF out.raised = NoError THEN out.d2 ELSE None
    /\ call' = "distance"
    /\ decomposeCalls' = 0
    /\ answer' = NotAsked
    /\ UNCHANGED <<deviceVars, opVars>>

Return ==
    /\ call # "idle"
    /\ call' = "idle"
    /\ operation' = NoOperation
    /\ raised' = NoError
    /\ returned' = None
    /\ decomposeCalls' = 0
    /\ answer' = NotAsked
    /\ UNCHANGED <<deviceVars, opVars>>

(***************************************************************************)
(* The caller's own steps on the list it passed to the constructor:        *)
(* self.qubits is that list. (Appends keep the list sorted here, so that   *)
(* the lists of the model stay those of ConstructorQubits.)                *)
(***************************************************************************)
CallerAppend ==
    /\ call = "idle"
    /\ qubitsKind = "list"
    /\ Len(qubits) < MaxDeviceQubits
    /\ \E q \in GridQubits :
          /\ Len(qubits) > 0 => QubitLess(qubits[Len(qubits)], q)
          /\ qubits' = Append(qubits, q)
    /\ UNCHANGED <<control_radius, qubitsKind, callVars, opVars>>

CallerPop ==
    /\ call = "idle"
    /\ qubitsKind = "list"
    /\ Len(qubits) > 0
    /\ qubits' = SubSeq(qubits, 1, Len(qubits) - 1)
    /\ UNCHANGED <<control_radius, qubitsKind, callVars, opVars>>

Next ==
    \/ ValidateOperation
    \/ DecomposeOperation
    \/ IsPasqalDeviceOp
    \/ QubitSet
    \/ Distance
    \/ Return
    \/ CallerAppend
    \/ CallerPop

Spec == Init /\ [][Next]_vars

(***************************************************************************)
(* gate_operation.py. A gate is a value with its own equality; it may      *)
(* implement InterchangeableQubitsGate, and then maps qubit indices        *)
(* 0, 1, ... to equivalence group keys.                                    *)
(***************************************************************************)
Indices == 0..(MaxArity - 1)

Gate(name, interchangeable, keys) ==
    [name |-> name, interchangeable |-> interchangeable, keys |-> keys]

Gates ==
    {Gate("Plain", FALSE, [i \in Indices |-> 0]),
     Gate("Symmetric", TRUE, [i \in Indices |-> 0]),
     Gate("ControlAndTargets", TRUE, [i \in Indices |-> IF i = 0 THEN 0 ELSE 1]),
     Gate("Alternating", TRUE, [i \in Indices |-> i % 2]),
     Gate("Distinct", TRUE, [i \in Indices |-> i]),
     Gate("DistinctDescending", TRUE, [i \in Indices |-> MaxArity - i])}

QubitIds == {"a", "b", "c"}

QubitSeqs == SeqsUpTo(QubitIds, 1, MaxArity)

\* GateOperation and two subclasses of it that inherit its methods
Classes == {"GateOperation", "SubA", "SubB"}

\* issubclass(c, d)
IsSubclass(c, d) == c = d \/ (c \in {"SubA", "SubB"} /\ d = "GateOperation")

\* GateOperation.__init__, through class cls
NewOperation(cls, gate, qs) == [cls |-> cls, gate |-> gate, qubits |-> qs]

Operations == {NewOperation(cls, g, qs) : cls \in Classes, g \in Gates, qs \in QubitSeqs}

\* Gate.on(*qubits) makes a GateOperation
on(gate, qs) == NewOperation("GateOperation", gate, qs)

with_qubits(op, new_qubits) == on(op.gate, new_qubits)

with_gate(op, new_gate) == on(new_gate, op.qubits)

(***************************************************************************)
(* GateOperation._group_interchangeable_qubits                             *)
(***************************************************************************)
RECURSIVE SortedSeq(_)
SortedSeq(K) ==
    IF K = {} THEN <<>>
    ELSE LET m == CHOOSE x \in K : \A y \in K : x <= y
         IN  <<m>> \o SortedSeq(K \ {m})

\* the dict `groups` after the loop: key -> the qubits at the indices with that key
Groups(op) ==
    LET n == Len(op.qubits)
        K == {op.gate.keys[i] : i \in 0..(n - 1)}
    IN  [k \in K |-> {i \in 0..(n - 1) : op.gate.keys[i] = k}]

\* with groups[k] = [q] in place of groups[k].append(q)
group_interchangeable_qubits_LastOnly(op) ==
    IF ~op.gate.interchangeable
    THEN op.qubits
    ELSE LET g == Groups(op)
             ks == SortedSeq(DOMAIN g)
             Last(I) == CHOOSE i \in I : \A k \in I : k <= i
         IN  [j \in 1..Len(ks) |-> <<ks[j], {op.qubits[Last(g[ks[j]]) + 1]}>>]

\* with the qubits grouped whatever the gate
group_interchangeable_qubits_AlwaysGrouped(op) ==
    LET g == Groups(op)
        ks == SortedSeq(DOMAIN g)
    IN  [j \in 1..Len(ks) |-> <<ks[j], {op.qubits[i + 1] : i \in g[ks[j]]}>>]

group_interchangeable_qubits(op) ==
    IF ~op.gate.interchangeable
    THEN op.qubits
    ELSE LET g == Groups(op)
             ks == SortedSeq(DOMAIN g)
         IN  [j \in 1..Len(ks) |-> <<ks[j], {op.qubits[i + 1] : i \in g[ks[j]]}>>]

(***************************************************************************)
(* GateOperation._eq_tuple, __eq__, __ne__, __hash__                       *)
(***************************************************************************)
eq_tuple(op) == <<"raw_types.Operation", op.gate, group_interchangeable_qubits(op)>>

\* tuple == tuple: element by element, stopping at the first difference
TupleEq(t, u) == t[1] = u[1] /\ t[2] = u[2] /\ t[3] = u[3]

eq_method_NoTypeCheck(self, other) ==
    IF TupleEq(eq_tuple(self), eq_tuple(other)) THEN "True" ELSE "False"

\* self.__eq__(other)
eq_method(self, other) ==
    IF ~IsSubclass(other.cls, self.cls)
    THEN "NotImplemented"
    ELSE IF TupleEq(eq_tuple(self), eq_tuple(other)) THEN "True" ELSE "False"

\* a == b, of two distinct objects: the operand whose class is a proper
\* subclass of the other's is asked first, then the other; when both answer
\* NotImplemented the objects are compared by identity.
PyEq(a, b) ==
    LET bFirst == a.cls # b.cls /\ IsSubclass(b.cls, a.cls)
        r1 == IF bFirst THEN eq_method(b, a) ELSE eq_method(a, b)
        r2 == IF bFirst THEN eq_method(a, b) ELSE eq_method(b, a)
    IN  IF r1 # "NotImplemented" THEN r1 = "True"
        ELSE IF r2 # "NotImplemented" THEN r2 = "True"
        ELSE FALSE

\* a != b
PyNe(a, b) == ~PyEq(a, b)

\* hash(): of a qubit, of a gate, of a frozenset (whatever the order of its
\* elements), of a tuple (element by element, in order)
HashQubit(q) == CASE q = "a" -> 11 [] q = "b" -> 23 [] q = "c" -> 37

HashGate(g) == (Len(g.name) * 17 + (IF g.interchangeable THEN 1 ELSE 0)) % HashModulus

RECURSIVE HashFrozenset(_)
HashFrozenset(S) ==
    IF S = {} THEN 3
    ELSE LET q == CHOOSE x \in S : TRUE
         IN  (HashQubit(q) * HashQubit(q) + HashFrozenset(S \ {q})) % HashModulus

RECURSIVE HashTuple(_)
HashTuple(hs) ==
    IF hs = <<>> THEN 5
    ELSE (HashTuple(SubSeq(hs, 1, Len(hs) - 1)) * 31 + hs[Len(hs)]) % HashModulus

HashGrouped(op) ==
    LET t == group_interchangeable_qubits(op)
    IN  IF ~op.gate.interchangeable
        THEN HashTuple([i \in 1..Len(t) |-> HashQubit(t[i])])
        ELSE HashTuple([i \in 1..Len(t) |->
                           HashTuple(<<t[i][1], HashFrozenset(t[i][2])>>)])

\* GateOperation.__hash__
hash(op) == HashTuple(<<7, HashGate(op.gate), HashGrouped(op)>>)

(***************************************************************************)
(* OpSpec: an operation opA, and a second one built from it.               *)
(***************************************************************************)
InitOp ==
    /\ control_radius = 0
    /\ qubits = <<>>
    /\ qubitsKind = "list"
    /\ Idle
    /\ opA \in Operations
    /\ opB = NoOp

\* cls(opA.gate, qs): the same gate applied to any qubits, by any class
Construct ==
    /\ opB = NoOp
    /\ \E cls \in Classes, qs \in QubitSeqs : opB' = NewOperation(cls, opA.gate, qs)
    /\ UNCHANGED <<opA, deviceVars, callVars>>

WithQubits ==
    /\ opB = NoOp
    /\ \E qs \in QubitSeqs : opB' = with_qubits(opA, qs)
    /\ UNCHANGED <<opA, deviceVars, callVars>>

WithGate ==
    /\ opB = NoOp
    /\ \E g \in Gates : opB' = with_gate(opA, g)
    /\ UNCHANGED <<opA, deviceVars, callVars>>

Discard ==
    /\ opB # NoOp
    /\ opB' = NoOp
    /\ UNCHANGED <<opA, deviceVars, callVars>>

NextOp ==
    \/ Construct
    \/ WithQubits
    \/ WithGate
    \/ Discard

OpSpec == InitOp /\ [][NextOp]_vars

(***************************************************************************)
(* Properties of PasqalDevice, under Spec.                                  *)
(***************************************************************************)
NativeKinds == {"XPowGate", "YPowGate", "ZPowGate", "PhasedXPowGate",
                "MeasurementGate", "IdentityGate"}

XYKinds == {"XPowGate", "YPowGate", "PhasedXPowGate"}

Native(op) ==
    op.cls = "GateOperation" /\ (Len(op.qubits) > 1 \/ op.gate \in NativeKinds)

AllGrid(op) == \A q \in Range(op.qubits) : q.type = "ThreeDGridQubit"

\* the Euclidean distance of two operands exceeds control_radius
TooFar(p, q) ==
    4 * ((p.row - q.row) ^ 2 + (p.col - q.col) ^ 2 + (p.lay - q.lay) ^ 2)
        > control_radius ^ 2

SomePairTooFar(op) == \E p \in Range(op.qubits), q \in Range(op.qubits) : TooFar(p, q)

\* the outcome of checks 1-7, taken in order
ExpectedValidation(op) ==
    CASE op.cls # "GateOperation" -> "NotAnOperation"
      [] OTHER ->
    CASE ~Native(op) -> "UnsupportedGate"
      [] OTHER ->
    CASE ~AllGrid(op) -> "WrongLocationKind"
      [] OTHER ->
    CASE op.gate \in {"MeasurementGate", "IdentityGate"} -> "none"
      [] OTHER ->
    CASE Len(op.qubits) > max_parallel_c + max_parallel_t -> "TooManyParallelControlled"
      [] OTHER ->
    CASE Len(op.qubits) > 1 /\ SomePairTooFar(op) -> "OperandsTooFar"
      [] OTHER ->
    CASE op.gate = "ZPowGate" /\ Len(op.qubits) > max_parallel_z -> "TooManyParallelZ"
      [] OTHER ->
    CASE /\ op.gate \in XYKinds
         /\ Len(op.qubits) > max_parallel_xy
         /\ Len(op.qubits) # Cardinality(Range(qubits)) -> "TooManyParallelXY"
      [] OTHER -> "none"

\* C1: validate_operation has exactly the outcome of checks 1-7 run in order,
\* stopping at the first that fails: the earliest failing check is the one reported.
C1_ValidateOrderedChecks ==
    call = "validate_operation" => raised.kind = ExpectedValidation(operation)

\* a Z rotation on three qubits that are too far apart: checks 5 and 6 both
\* fail, and the error is that of check 5
C1_Witness ==
    /\ call = "validate_operation"
    /\ operation.cls = "GateOperation"
    /\ operation.gate = "ZPowGate"
    /\ Len(operation.qubits) > max_parallel_z
    /\ AllGrid(operation)
    /\ SomePairTooFar(operation)
    /\ raised.kind = "OperandsTooFar"

\* C2: whatever cirq.protocols.decompose answered, every element of a list
\* that decompose_operation returns is native; and if the answer holds an
\* element that is not native, decompose_operation returns nothing and raises
\* UnsupportedGate naming the gate of the original operation.
C2_NoNonNativeResidue ==
    call = "decompose_operation" =>
        /\ raised = NoError => \A i \in 1..Len(returned) : Native(returned[i])
        /\ (decomposeCalls = 1 /\ \E i \in 1..Len(answer.value) : ~Native(answer.value[i]))
              => /\ raised.kind = "UnsupportedGate"
                 /\ raised.gate = operation.gate
                 /\ returned = None

\* the answer holds a fragment that is not native, with another gate than the
\* original operation's, and the error names the original's gate
C2_Witness ==
    /\ call = "decompose_operation"
    /\ decomposeCalls = 1
    /\ \E i \in 1..Len(answer.value) :
          /\ ~Native(answer.value[i])
          /\ answer.value[i].gate # operation.gate
    /\ \E i \in 1..Len(answer.value) : Native(answer.value[i])
    /\ raised.kind = "UnsupportedGate"
    /\ raised.gate = operation.gate

\* C3: for a native operation, decompose_operation returns exactly the
\* one-element list of that operation, and cirq.protocols.decompose is not called.
C3_NativeIsReturnedUnchanged ==
    (call = "decompose_operation" /\ Native(operation)) =>
        /\ raised = NoError
        /\ returned = <<operation>>
        /\ decomposeCalls = 0

C3_Witness ==
    /\ call = "decompose_operation"
    /\ operation.cls = "GateOperation"
    /\ operation.gate = "OtherGate"
    /\ Len(operation.qubits) = 2
    /\ returned = <<operation>>
    /\ decomposeCalls = 0

\* C4: is_pasqal_device_op is true exactly for a GateOperation that has more
\* than one qubit or whose gate is an X, Y, Z or phased rotation, a
\* measurement or an identity.
C4_IsNativeCharacterised ==
    call = "is_pasqal_device_op" =>
        returned = (/\ operation.cls = "GateOperation"
                    /\ \/ Len(operation.qubits) > 1
                       \/ operation.gate \in NativeKinds)

\* an operation that is native only because it has two qubits
C4_Witness ==
    /\ call = "is_pasqal_device_op"
    /\ operation.cls = "GateOperation"
    /\ operation.gate = "OtherGate"
    /\ Len(operation.qubits) > 1
    /\ returned = TRUE

\* an X, Y or phased rotation on exactly the qubits of the device
FullDeviceBroadcast(op) ==
    /\ op.cls = "GateOperation"
    /\ op.gate \in XYKinds
    /\ Range(op.qubits) = Range(qubits)
    /\ Len(op.qubits) = Cardinality(Range(qubits))

\* C5 as claimed: a rotation on all the qubits of the device passes
\* validate_operation also when they are more than max_parallel_xy.
C5_BroadcastAlwaysPasses ==
    (/\ call = "validate_operation"
     /\ FullDeviceBroadcast(operation)
     /\ Len(operation.qubits) > max_parallel_xy) => raised = NoError

\* C5, amended: a rotation on all the qubits of the device never fails with
\* TooManyParallelXY, and it passes validate_operation when the qubits are at
\* most max_parallel_c + max_parallel_t and pairwise within control_radius.
C5_BroadcastExemptFromXYCap ==
    (call = "validate_operation" /\ FullDeviceBroadcast(operation)) =>
        /\ raised.kind # "TooManyParallelXY"
        /\ (/\ Len(operation.qubits) <= max_parallel_c + max_parallel_t
            /\ ~SomePairTooFar(operation)) => raised = NoError

\* a broadcast to more qubits than max_parallel_xy that passes
C5_Witness ==
    /\ call = "validate_operation"
    /\ FullDeviceBroadcast(operation)
    /\ Len(operation.qubits) > max_parallel_xy
    /\ raised = NoError

ZRotationOnGrid(op, n) ==
    /\ op.cls = "GateOperation"
    /\ op.gate = "ZPowGate"
    /\ Len(op.qubits) = n
    /\ AllGrid(op)

\* C6 as claimed: for any grid qubits, a Z rotation on three of them fails with
\* TooManyParallelZ and a Z rotation on two of them passes.
C6_ZCapAnyQubits ==
    call = "validate_operation" =>
        /\ ZRotationOnGrid(operation, max_parallel_z + 1) => raised.kind = "TooManyParallelZ"
        /\ ZRotationOnGrid(operation, max_parallel_z) => raised = NoError

\* C6, amended: for grid qubits that are pairwise within control_radius, a Z
\* rotation on three of them fails with TooManyParallelZ and a Z rotation on
\* two of them passes.
C6_ZCapWithinRadius ==
    (call = "validate_operation" /\ ~SomePairTooFar(operation)) =>
        /\ ZRotationOnGrid(operation, max_parallel_z + 1) => raised.kind = "TooManyParallelZ"
        /\ ZRotationOnGrid(operation, max_parallel_z) => raised = NoError

\* a Z rotation on three distinct qubits within the radius fails on the Z cap
C6_Witness ==
    /\ call = "validate_operation"
    /\ ZRotationOnGrid(operation, max_parallel_z + 1)
    /\ Cardinality(Range(operation.qubits)) = max_parallel_z + 1
    /\ ~SomePairTooFar(operation)
    /\ raised.kind = "TooManyParallelZ"

\* C10: after construction no step, of the device or of the caller that
\* supplied the qubits, changes the device's qubit set or its control_radius.
C10_ConfigurationFixed ==
    [][/\ qubit_set(qubits)' = qubit_set(qubits)
       /\ control_radius' = control_radius]_vars

(***************************************************************************)
(* Properties of GateOperation, under OpSpec.                               *)
(***************************************************************************)
Built == opB # NoOp

\* the gates are equal and the equivalence keys are equal
SameGateAndKey(a, b) ==
    /\ a.gate = b.gate
    /\ group_interchangeable_qubits(a) = group_interchangeable_qubits(b)

\* C7 as claimed: two operations of different classes are never equal, also
\* when one class is a subclass of the other.
C7_DifferentClassesNeverEqual ==
    (Built /\ opA.cls # opB.cls) => ~PyEq(opA, opB) /\ ~PyEq(opB, opA)

\* C7, amended: two operations of different classes, neither a subclass of the
\* other, are never equal (and != holds of them), also when their gates and
\* equivalence keys are equal.
C7_UnrelatedClassesNeverEqual ==
    (Built /\ ~IsSubclass(opA.cls, opB.cls) /\ ~IsSubclass(opB.cls, opA.cls)) =>
        /\ ~PyEq(opA, opB)
        /\ ~PyEq(opB, opA)
        /\ PyNe(opA, opB)

\* two sibling subclasses, equal gates, equal equivalence keys
C7_Witness ==
    /\ Built
    /\ opA.cls = "SubA"
    /\ opB.cls = "SubB"
    /\ SameGateAndKey(opA, opB)
    /\ ~PyEq(opA, opB)

\* b is a with the qubits at positions i and j exchanged
IsSwapAt(a, b, i, j) ==
    /\ Len(b.qubits) = Len(a.qubits)
    /\ i \in 1..Len(a.qubits)
    /\ j \in 1..Len(a.qubits)
    /\ b.qubits = [a.qubits EXCEPT ![i] = a.qubits[j], ![j] = a.qubits[i]]

\* some two positions with the same equivalence group key, exchanged
IsSwapWithinGroup(a, b) ==
    /\ a.gate.interchangeable
    /\ b.gate = a.gate
    /\ IsSubclass(a.cls, b.cls) \/ IsSubclass(b.cls, a.cls)
    /\ \E i, j \in 1..MaxArity :
          /\ i < j
          /\ IsSwapAt(a, b, i, j)
          /\ a.gate.keys[i - 1] = a.gate.keys[j - 1]

\* C8: exchanging the qubits at two positions that the gate maps to the same
\* equivalence group key gives an equal operation with the same hash; and any
\* two equal operations have equal hashes.
C8_GroupSymmetry ==
    Built =>
        /\ IsSwapWithinGroup(opA, opB) => PyEq(opA, opB) /\ hash(opA) = hash(opB)
        /\ PyEq(opA, opB) => hash(opA) = hash(opB)

\* two different qubits of one group exchanged, a third qubit in another group
C8_Witness ==
    /\ Built
    /\ IsSwapWithinGroup(opA, opB)
    /\ opA.qubits # opB.qubits
    /\ Cardinality(DOMAIN Groups(opA)) > 1
    /\ PyEq(opA, opB)
    /\ hash(opA) = hash(opB)

\* b's qubits are a's in another order
IsReordering(a, b) ==
    /\ Len(b.qubits) = Len(a.qubits)
    /\ b.qubits # a.qubits
    /\ \A q \in QubitIds :
          Cardinality({i \in 1..Len(a.qubits) : a.qubits[i] = q})
              = Cardinality({i \in 1..Len(b.qubits) : b.qubits[i] = q})

\* the gate lets no two positions of the operation be exchanged
OrderSensitive(a) ==
    \/ ~a.gate.interchangeable
    \/ \A i, j \in 0..(Len(a.qubits) - 1) : i # j => a.gate.keys[i] # a.gate.keys[j]

\* C9: for a gate that is not an InterchangeableQubitsGate, or that gives every
\* position its own key, an operation with the same gate and the qubits in
\* another order is unequal to the original.
C9_OrderSensitivity ==
    (Built /\ opB.gate = opA.gate /\ OrderSensitive(opA) /\ IsReordering(opA, opB)) =>
        /\ ~PyEq(opA, opB)
        /\ ~PyEq(opB, opA)

\* an InterchangeableQubitsGate with distinct keys, three qubits reordered
C9_Witness ==
    /\ Built
    /\ opB.gate = opA.gate
    /\ opB.cls = opA.cls
    /\ opA.gate.interchangeable
    /\ OrderSensitive(opA)
    /\ IsReordering(opA, opB)
    /\ Len(opA.qubits) = 3
    /\ ~PyEq(opA, opB)

====
